---- MODULE Spec2Model ----
(***************************************************************************)
(* FlacToMkvConverter (src/flac_to_mkv_converter.py): the conversion job   *)
(* convert_to_mkv with its collaborators get_track_metadata,               *)
(* create_video_frame, create_chapter_file, and the word wrap wrap_text.   *)
(*                                                                         *)
(* Time is counted in ticks, TicksPerMs ticks to the millisecond, so that  *)
(* int(seconds * 1000) of create_chapter_file is a real truncation.        *)
(* Rendered text is measured in width units: a word is its width.          *)
(***************************************************************************)
EXTENDS Integers, Sequences, FiniteSets, TLC

----------------------------------------------------------------------------
(* Bounds of the model *)

NumPaths == 3
TicksPerMs == 10
MaxWords == 3
MaxWordWidth == 4
MaxColumn == 4

(* Program constants *)

MsPerSecond == 1000
DefaultSampleRate == 44100
DefaultBitsPerSample == 16
DefaultChannels == 2
LoopPercent == 50
CombiningPercent == 50
FinalPercent == 75
CompletePercent == 100
SpaceWidth == 1

----------------------------------------------------------------------------
(* The files on disk *)

Paths == 1..NumPaths

Seconds(s) == s * MsPerSecond * TicksPerMs

\* What a FLAC file on disk can look like to mutagen: unreadable, or
\* readable with or without the TITLE / ARTIST / ALBUM / TRACKNUMBER tags.
\* Tag values are text, as Vorbis comments are.
FileKinds ==
  { [readable |-> FALSE, tagged |-> FALSE, TRACKNUMBER |-> "",  length |-> Seconds(180),
     sample_rate |-> 48000, bits_per_sample |-> 24, channels |-> 2],
    [readable |-> TRUE,  tagged |-> FALSE, TRACKNUMBER |-> "",  length |-> Seconds(200),
     sample_rate |-> 96000, bits_per_sample |-> 24, channels |-> 2],
    [readable |-> TRUE,  tagged |-> TRUE,  TRACKNUMBER |-> "2", length |-> Seconds(150) + 15,
     sample_rate |-> 96000, bits_per_sample |-> 24, channels |-> 6] }

ExitCodes == {0, 1}
StderrTexts == {"", "Invalid data found when processing input"}

\* Text values: a tag of the file at a path, the stem of its file name, or
\* one of the fixed fallback texts.
Tag(name, p) == [src |-> name, path |-> p]
Stem(p) == [src |-> "stem", path |-> p]
Fixed(text) == [src |-> text, path |-> 0]

\* Python values that reach a format specification: text or integer.
PyStr(v) == [type |-> "str", val |-> v]
PyInt(n) == [type |-> "int", val |-> n]

----------------------------------------------------------------------------
VARIABLES
  disk,             \* Paths -> FileKinds: the audio files as they are on disk
  flac_files,       \* self.flac_files
  cover_art_path,   \* self.cover_art_path ("" = unset)
  output_path,      \* self.output_path ("" = unset)
  temp_dir,         \* does the scratch directory exist
  scratch,          \* names of the artifacts in the scratch directory
  pc,               \* position in convert_to_mkv
  callback,         \* was a progress_callback passed
  i,                \* loop index of the per-track loop
  total_duration,   \* the chapter cursor, in ticks
  chapter_data,     \* list of chapter entries
  video_segments,   \* list of segment paths
  chapter_file,     \* content of chapters.txt
  concat_file,      \* content of concat.txt
  progress,         \* percents handed to progress_callback in this call
  ffmpeg,           \* transcoder invocations of this call
  rendered,         \* track indices whose frame was rendered in this call
  destination,      \* what this call left at output_path
  pending,          \* outcome in flight while the finally block runs
  result,           \* outcome seen by the caller
  rmtree_attempts,  \* shutil.rmtree calls of this call
  words,            \* wrap_text: text.split(), each word as its rendered width
  max_width,        \* wrap_text: column width
  w,                \* wrap_text: number of words consumed by the loop
  lines,            \* wrap_text: lines
  current_line,     \* wrap_text: current_line
  wpc               \* wrap_text: position

jobVars == <<disk, flac_files, cover_art_path, output_path>>
runVars == <<temp_dir, scratch, pc, callback, i, total_duration, chapter_data,
             video_segments, chapter_file, concat_file, progress, ffmpeg,
             rendered, destination, pending, result, rmtree_attempts>>
wrapVars == <<words, max_width, w, lines, current_line, wpc>>
vars == <<jobVars, runVars, wrapVars>>

----------------------------------------------------------------------------
(* Pure helpers *)

\* sorted(files): insertion of each element into an ascending list.
RECURSIVE Insert(_, _)
Insert(x, s) ==
  IF s = <<>> THEN <<x>>
  ELSE IF x <= Head(s) THEN <<x>> \o s
  ELSE <<Head(s)>> \o Insert(x, Tail(s))

RECURSIVE Sorted(_)
Sorted(s) == IF s = <<>> THEN <<>> ELSE Insert(Head(s), Sorted(Tail(s)))

\* The tuples a file dialog can return: distinct paths in any order.
Selections ==
  { s \in UNION { [1..n -> Paths] : n \in 0..NumPaths } :
      \A a, b \in DOMAIN s : a # b => s[a] # s[b] }

Digits == <<"0", "1", "2", "3", "4", "5", "6", "7", "8", "9">>

\* format(v, "02d"): an integer is zero-padded to two digits; text has no
\* format code 'd' and raises ValueError.
Format02d(v) ==
  IF v.type = "int"
  THEN [ok |-> TRUE,
        text |-> Digits[((v.val \div 10) % 10) + 1] \o Digits[(v.val % 10) + 1]]
  ELSE [ok |-> FALSE,
        text |-> "Unknown format code 'd' for object of type 'str'"]

get_track_metadata(flac_path) ==
  LET audio == disk[flac_path] IN
  IF audio.readable
  THEN [title |-> IF audio.tagged THEN Tag("TITLE", flac_path) ELSE Stem(flac_path),
        artist |-> IF audio.tagged THEN Tag("ARTIST", flac_path) ELSE Fixed("Unknown Artist"),
        album |-> IF audio.tagged THEN Tag("ALBUM", flac_path) ELSE Fixed("Unknown Album"),
        track_number |-> PyStr(IF audio.tagged THEN audio.TRACKNUMBER ELSE "1"),
        duration |-> audio.length,
        sample_rate |-> audio.sample_rate,
        bits_per_sample |-> audio.bits_per_sample,
        channels |-> audio.channels]
  ELSE [title |-> Stem(flac_path),
        artist |-> Fixed("Unknown Artist"),
        album |-> Fixed("Unknown Album"),
        track_number |-> PyStr("1"),
        duration |-> 0,
        sample_rate |-> DefaultSampleRate,
        bits_per_sample |-> DefaultBitsPerSample,
        channels |-> DefaultChannels]

\* The frame of a track: the text block is drawn only if formatting the
\* track text succeeds; a failure there is caught and the frame has no text.
create_video_frame(track_title, track_number, artist, album) ==
  LET track_text == Format02d(track_number) IN
  [cover |-> cover_art_path,
   text |-> IF track_text.ok
            THEN <<[number |-> track_text.text, title |-> track_title], artist, album>>
            ELSE <<>>]

\* int(seconds * 1000)
Milliseconds(ticks) == ticks \div TicksPerMs

create_chapter_file(data) ==
  [k \in 1..Len(data) |->
     [START |-> Milliseconds(data[k].start),
      END |-> Milliseconds(data[k].end),
      title |-> data[k].title]]

\* str(e) of a CalledProcessError whose stderr is empty
CalledProcessErrorText(rc) == [text |-> "returned non-zero exit status", rc |-> rc]

\* As FFmpegError, but the captured stderr is dropped from the message.
FFmpegErrorDropsStderr(rc, stderr) ==
  [type |-> "raise", exc |-> "RuntimeError", prefix |-> "FFmpeg error: ",
   msg |-> CalledProcessErrorText(rc)]

\* except subprocess.CalledProcessError
FFmpegError(rc, stderr) ==
  [type |-> "raise", exc |-> "RuntimeError", prefix |-> "FFmpeg error: ",
   msg |-> IF stderr # "" THEN [text |-> stderr, rc |-> rc] ELSE CalledProcessErrorText(rc)]

\* except Exception
ConversionError(text) ==
  [type |-> "raise", exc |-> "RuntimeError", prefix |-> "Conversion error: ",
   msg |-> [text |-> text, rc |-> 0]]

Raised(exc) == [type |-> "raise", exc |-> exc, prefix |-> "", msg |-> [text |-> "", rc |-> 0]]
Returned(v) == [type |-> "return", exc |-> "", prefix |-> "", msg |-> [text |-> "", rc |-> 0], val |-> v]
NoOutcome == [type |-> "none"]

Frame(k) == [kind |-> "frame", track |-> k]
Video(k) == [kind |-> "video", track |-> k]
ChaptersTxt == [kind |-> "chapters.txt", track |-> 0]
ConcatTxt == [kind |-> "concat.txt", track |-> 0]

\* As EncodeCmd, but the chapter file is passed as an input too.
EncodeCmdWithChapters(k, flac_file, duration) ==
  [kind |-> "encode", track |-> k, audio |-> flac_file, t |-> duration,
   chapters |-> TRUE, out |-> "scratch"]

\* As EncodeCmd, but the segment is written to output_path.
EncodeCmdToOutputPath(k, flac_file, duration) ==
  [kind |-> "encode", track |-> k, audio |-> flac_file, t |-> duration,
   chapters |-> FALSE, out |-> "output_path"]

\* The per-track encode command: frame and audio in, the segment in the
\* scratch directory out.
EncodeCmd(k, flac_file, duration) ==
  [kind |-> "encode", track |-> k, audio |-> flac_file, t |-> duration,
   chapters |-> FALSE, out |-> "scratch"]

\* The final combine command: manifest and chapter file in, output_path out.
CombineCmd ==
  [kind |-> "combine", track |-> 0, audio |-> 0, t |-> 0,
   chapters |-> TRUE, out |-> "output_path"]

\* One transcoder invocation as recorded: the command and how it ended.
Ran(cmd, rc, stderr) == [cmd |-> cmd, rc |-> rc, stderr |-> stderr]

\* What is at output_path after a command ended: a successful command
\* writing there completes the file, a failing one leaves what the
\* transcoder left behind.
Written(cmd, rc, left) ==
  IF cmd.out = "output_path"
  THEN IF rc = 0 THEN "complete" ELSE left
  ELSE destination

Emit(seq, percents) == IF callback THEN seq \o percents ELSE seq

----------------------------------------------------------------------------
(* Initial state: the converter as constructed, no call made yet *)

RunInit ==
  /\ temp_dir = FALSE
  /\ scratch = {}
  /\ pc = "idle"
  /\ callback = FALSE
  /\ i = 0
  /\ total_duration = 0
  /\ chapter_data = <<>>
  /\ video_segments = <<>>
  /\ chapter_file = <<>>
  /\ concat_file = <<>>
  /\ progress = <<>>
  /\ ffmpeg = <<>>
  /\ rendered = <<>>
  /\ destination = "untouched"
  /\ pending = NoOutcome
  /\ result = NoOutcome
  /\ rmtree_attempts = 0

WrapIdle ==
  /\ words = <<>>
  /\ max_width = 1
  /\ w = 0
  /\ lines = <<>>
  /\ current_line = <<>>
  /\ wpc = "done"

Init ==
  /\ disk \in [Paths -> FileKinds]
  /\ flac_files = <<>>
  /\ cover_art_path = ""
  /\ output_path = ""
  /\ RunInit
  /\ WrapIdle

----------------------------------------------------------------------------
(* The file pickers *)

select_flac_files ==
  /\ pc = "idle"
  /\ \E files \in Selections :
       flac_files' = IF files # <<>> THEN Sorted(files) ELSE flac_files
  /\ UNCHANGED <<disk, cover_art_path, output_path, runVars, wrapVars>>

select_cover_art ==
  /\ pc = "idle"
  /\ \E file \in {"", "cover.jpg"} :
       cover_art_path' = IF file # "" THEN file ELSE cover_art_path
  /\ UNCHANGED <<disk, flac_files, output_path, runVars, wrapVars>>

select_output_path ==
  /\ pc = "idle"
  /\ \E file \in {"", "album.mkv"} :
       output_path' = IF file # "" THEN file ELSE output_path
  /\ UNCHANGED <<disk, flac_files, cover_art_path, runVars, wrapVars>>

----------------------------------------------------------------------------
(* convert_to_mkv *)

\* Entry: the check of the three inputs, mkdtemp, and the locals of the try
\* block.  What the previous call recorded is forgotten.
ConvertStart ==
  /\ pc = "idle"
  /\ \E cb \in BOOLEAN, made \in BOOLEAN :
       /\ callback' = cb
       /\ i' = 0
       /\ total_duration' = 0
       /\ chapter_data' = <<>>
       /\ video_segments' = <<>>
       /\ chapter_file' = <<>>
       /\ concat_file' = <<>>
       /\ progress' = <<>>
       /\ ffmpeg' = <<>>
       /\ rendered' = <<>>
       /\ destination' = "untouched"
       /\ pending' = NoOutcome
       /\ rmtree_attempts' = 0
       /\ scratch' = {}
       /\ IF flac_files = <<>> \/ cover_art_path = "" \/ output_path = ""
          THEN /\ result' = Raised("ValueError")
               /\ temp_dir' = FALSE
               /\ pc' = "done"
          ELSE IF made
          THEN /\ result' = NoOutcome
               /\ temp_dir' = TRUE
               /\ pc' = "try"
          ELSE /\ result' = Raised("OSError")
               /\ temp_dir' = FALSE
               /\ pc' = "done"
  /\ UNCHANGED <<jobVars, wrapVars>>

\* One pass of the per-track loop for track i.
LoopIteration ==
  LET flac_file == flac_files[i + 1]
      metadata == get_track_metadata(flac_file)
      frame == create_video_frame(metadata.title, metadata.track_number,
                                  metadata.artist, metadata.album)
      duration == metadata.duration
      number == Format02d(metadata.track_number)
  IN
  /\ progress' = Emit(progress, <<(i * LoopPercent) \div Len(flac_files)>>)
  /\ rendered' = Append(rendered, [track |-> i, frame |-> frame])
  /\ \E rc \in ExitCodes, stderr \in StderrTexts, left \in {"untouched", "partial"} :
       /\ rc = 0 => stderr = "" /\ left = "untouched"
       /\ ffmpeg' = Append(ffmpeg, Ran(EncodeCmd(i, flac_file, duration), rc, stderr))
       /\ destination' = Written(EncodeCmd(i, flac_file, duration), rc, left)
       /\ IF rc # 0
          THEN /\ pending' = FFmpegError(rc, stderr)
               /\ pc' = "finally"
               /\ scratch' = scratch \cup {Frame(i)}
               /\ UNCHANGED <<video_segments, chapter_data, total_duration, i>>
          ELSE /\ video_segments' = Append(video_segments, Video(i))
               /\ scratch' = scratch \cup {Frame(i), Video(i)}
               /\ IF number.ok
                  THEN /\ chapter_data' = Append(chapter_data,
                            [start |-> total_duration,
                             end |-> total_duration + duration,
                             title |-> [number |-> number.text, title |-> metadata.title],
                             audio |-> flac_file])
                       /\ total_duration' = total_duration + duration
                       /\ i' = i + 1
                       /\ UNCHANGED <<pending, pc>>
                  ELSE /\ pending' = ConversionError(number.text)
                       /\ pc' = "finally"
                       /\ UNCHANGED <<chapter_data, total_duration, i>>
  /\ UNCHANGED <<chapter_file, concat_file>>

\* After the loop: chapter file, concat manifest, the final combine.
CombineSegments ==
  /\ chapter_file' = create_chapter_file(chapter_data)
  /\ concat_file' = video_segments
  /\ scratch' = scratch \cup {ChaptersTxt, ConcatTxt}
  /\ \E rc \in ExitCodes, stderr \in StderrTexts, left \in {"untouched", "partial"} :
       /\ rc = 0 => stderr = "" /\ left = "untouched"
       /\ ffmpeg' = Append(ffmpeg, Ran(CombineCmd, rc, stderr))
       /\ destination' = Written(CombineCmd, rc, left)
       /\ IF rc = 0
          THEN /\ progress' = Emit(progress, <<CombiningPercent, FinalPercent, CompletePercent>>)
               /\ pending' = Returned(TRUE)
          ELSE /\ progress' = Emit(progress, <<CombiningPercent, FinalPercent>>)
               /\ pending' = FFmpegError(rc, stderr)
  /\ pc' = "finally"
  /\ UNCHANGED <<rendered, video_segments, chapter_data, total_duration, i>>

\* The body of the try block, one step at a time.
TryBlock ==
  /\ pc = "try"
  /\ IF i < Len(flac_files) THEN LoopIteration ELSE CombineSegments
  /\ UNCHANGED <<jobVars, wrapVars, temp_dir, callback, result, rmtree_attempts>>

\* As Cleanup, but a failing rmtree is not caught: its error replaces the
\* outcome of the call.
CleanupEscalates ==
  /\ pc = "finally"
  /\ IF temp_dir
     THEN /\ rmtree_attempts' = rmtree_attempts + 1
          /\ \E removed \in BOOLEAN :
               IF removed
               THEN temp_dir' = FALSE /\ scratch' = {} /\ result' = pending
               ELSE temp_dir' = TRUE /\ scratch' \in SUBSET scratch
                    /\ result' = Raised("OSError")
     ELSE UNCHANGED <<rmtree_attempts, temp_dir, scratch>> /\ result' = pending
  /\ pc' = "done"
  /\ UNCHANGED <<jobVars, wrapVars, callback, i, total_duration, chapter_data,
                 video_segments, chapter_file, concat_file, progress, ffmpeg,
                 rendered, destination, pending>>

\* The finally block, then the return or raise reaches the caller.
Cleanup ==
  /\ pc = "finally"
  /\ IF temp_dir
     THEN /\ rmtree_attempts' = rmtree_attempts + 1
          /\ \E removed \in BOOLEAN :
               IF removed
               THEN temp_dir' = FALSE /\ scratch' = {}
               ELSE temp_dir' = TRUE /\ scratch' \in SUBSET scratch
     ELSE UNCHANGED <<rmtree_attempts, temp_dir, scratch>>
  /\ result' = pending
  /\ pc' = "done"
  /\ UNCHANGED <<jobVars, wrapVars, callback, i, total_duration, chapter_data,
                 video_segments, chapter_file, concat_file, progress, ffmpeg,
                 rendered, destination, pending>>

\* start_conversion has shown the outcome and enabled the button again.
Acknowledge ==
  /\ pc = "done"
  /\ pc' = "idle"
  /\ UNCHANGED <<jobVars, wrapVars, temp_dir, scratch, callback, i, total_duration,
                 chapter_data, video_segments, chapter_file, concat_file, progress,
                 ffmpeg, rendered, destination, pending, result, rmtree_attempts>>

----------------------------------------------------------------------------
(* wrap_text *)

RECURSIVE Sum(_)
Sum(s) == IF s = <<>> THEN 0 ELSE Head(s) + Sum(Tail(s))

\* draw.textbbox((0, 0), ' '.join(line), font)[2]: the words and the spaces
\* between them.
TextWidth(line) ==
  IF line = <<>> THEN 0 ELSE Sum(line) + (Len(line) - 1) * SpaceWidth

\* As Fits, but a line one unit wider than the column is accepted.
FitsOffByOne(test_line) == TextWidth(test_line) <= max_width + 1

Fits(test_line) == TextWidth(test_line) <= max_width

Texts == UNION { [1..n -> 1..MaxWordWidth] : n \in 0..MaxWords }

\* A call of wrap_text on any text and column width.
InitWrap ==
  /\ disk = [p \in Paths |-> CHOOSE k \in FileKinds : ~k.readable]
  /\ flac_files = <<>>
  /\ cover_art_path = ""
  /\ output_path = ""
  /\ RunInit
  /\ words \in Texts
  /\ max_width \in 1..MaxColumn
  /\ w = 0
  /\ lines = <<>>
  /\ current_line = <<>>
  /\ wpc = "loop"

\* One pass of the loop over the words.
WrapWord ==
  /\ wpc = "loop"
  /\ w < Len(words)
  /\ LET word == words[w + 1]
         test_line == Append(current_line, word)
     IN IF Fits(test_line)
        THEN /\ current_line' = test_line
             /\ UNCHANGED lines
        ELSE IF current_line # <<>>
        THEN /\ lines' = Append(lines, current_line)
             /\ current_line' = <<word>>
        ELSE /\ lines' = Append(lines, <<word>>)
             /\ UNCHANGED current_line
  /\ w' = w + 1
  /\ UNCHANGED <<jobVars, runVars, words, max_width, wpc>>

\* After the loop: the last line is flushed and the lines are returned.
WrapReturn ==
  /\ wpc = "loop"
  /\ w = Len(words)
  /\ lines' = IF current_line # <<>> THEN Append(lines, current_line) ELSE lines
  /\ wpc' = "done"
  /\ UNCHANGED <<jobVars, runVars, words, max_width, w, current_line>>

NextWrap == WrapWord \/ WrapReturn

SpecWrap == InitWrap /\ [][NextWrap]_vars

----------------------------------------------------------------------------
Next ==
  \/ select_flac_files
  \/ select_cover_art
  \/ select_output_path
  \/ ConvertStart
  \/ TryBlock
  \/ Cleanup
  \/ Acknowledge

Spec == Init /\ [][Next]_vars

----------------------------------------------------------------------------
(* Properties *)

N == Len(flac_files)

\* The call has ended and every transcoder invocation it made exited zero.
EndedAllZero ==
  /\ pc = "done"
  /\ ffmpeg # <<>>
  /\ \A k \in DOMAIN ffmpeg : ffmpeg[k].rc = 0

SomeInvocationFailed == \E k \in DOMAIN ffmpeg : ffmpeg[k].rc # 0

\* Sum of the durations of the first k input tracks.
RECURSIVE Cumulative(_)
Cumulative(k) ==
  IF k = 0 THEN 0
  ELSE Cumulative(k - 1) + get_track_metadata(flac_files[k]).duration

\* C1: a valid job whose transcoder invocations all exit zero hands N
\* chapter entries to create_chapter_file, each entry ending where the next
\* starts, in seconds and in the integer milliseconds of the chapter file.
ChaptersMatchTracks ==
  EndedAllZero =>
    /\ Len(chapter_data) = N
    /\ Len(chapter_file) = N
    /\ \A k \in 1..(N - 1) :
         /\ chapter_data[k].end = chapter_data[k + 1].start
         /\ chapter_file[k].END = chapter_file[k + 1].START

\* C2: the cursor starts at zero, and the k-th chapter entry runs from the
\* sum of the first k-1 track durations to the sum of the first k.
ChaptersAreCumulative ==
  /\ (pc = "try" /\ ffmpeg = <<>>) => total_duration = 0
  /\ EndedAllZero =>
       \A k \in 1..N :
         /\ k \in DOMAIN chapter_data
         /\ chapter_data[k].start = Cumulative(k - 1)
         /\ chapter_data[k].end = Cumulative(k)
         /\ k \in DOMAIN chapter_file
         /\ chapter_file[k].START = Milliseconds(Cumulative(k - 1))
         /\ chapter_file[k].END = Milliseconds(Cumulative(k))

MissingTagsJobCompletes ==
  \A k \in DOMAIN flac_files :
    LET flac_path == flac_files[k]
        metadata == get_track_metadata(flac_path)
    IN ~disk[flac_path].readable =>
         /\ metadata.title = Stem(flac_path)
         /\ metadata.artist = Fixed("Unknown Artist")
         /\ metadata.album = Fixed("Unknown Album")
         /\ metadata.track_number.val = "1"
         /\ metadata.sample_rate = 44100
         /\ metadata.bits_per_sample = 16
         /\ metadata.channels = 2
         /\ EndedAllZero => result = Returned(TRUE)

\* C5: a transcoder invocation that exits non-zero is the last one of the
\* call: no later track is rendered or encoded, no combine follows, no
\* percent 100 is emitted, and the call raises a RuntimeError that carries
\* the stderr text of that invocation.
TranscoderFailureIsFatal ==
  \A k \in DOMAIN ffmpeg :
    ffmpeg[k].rc # 0 =>
      LET outcome == IF pc = "finally" THEN pending ELSE result IN
      /\ k = Len(ffmpeg)
      /\ pc # "try"
      /\ ffmpeg[k].cmd.kind = "encode" =>
           \A r \in DOMAIN rendered : rendered[r].track <= ffmpeg[k].cmd.track
      /\ \A q \in DOMAIN progress : progress[q] # 100
      /\ outcome.type = "raise"
      /\ outcome.exc = "RuntimeError"
      /\ ffmpeg[k].stderr # "" => outcome.msg.text = ffmpeg[k].stderr

\* C5 witness: an encode exited non-zero with text on stderr, and the
\* caller got the RuntimeError with that text.
EncodeFailureSurfaced ==
  /\ pc = "done"
  /\ \E k \in DOMAIN ffmpeg :
       /\ ffmpeg[k].rc # 0
       /\ ffmpeg[k].stderr # ""
       /\ result.exc = "RuntimeError"
       /\ result.msg.text = ffmpeg[k].stderr

\* C6 as stated: after a run that failed in an encode or in the combine,
\* nothing partial is at the destination and the scratch artifacts are gone.
FailedRunLeavesNothing ==
  (pc = "done" /\ SomeInvocationFailed) =>
    /\ destination # "partial"
    /\ scratch = {}
    /\ ~temp_dir

\* C6 amended: after a run that failed in an encode or in the combine,
\* the destination is untouched, removal of the scratch directory was
\* attempted once, and the scratch artifacts are gone unless that removal
\* failed.
FailedRunLeavesDestination ==
  (pc = "done" /\ SomeInvocationFailed) =>
    /\ destination = "untouched"
    /\ rmtree_attempts = 1
    /\ ~temp_dir => scratch = {}

\* C6 witness: a failed run whose scratch directory was removed.
FailedRunCleaned ==
  /\ pc = "done"
  /\ SomeInvocationFailed
  /\ destination = "untouched"
  /\ rmtree_attempts = 1
  /\ ~temp_dir
  /\ scratch = {}

\* C7: once the scratch directory is created, its removal is attempted
\* exactly once before the call returns or raises, and the caller sees the
\* outcome the try block produced whether or not the removal failed.
ScratchRemovalOnce ==
  /\ pc = "try" => (temp_dir /\ rmtree_attempts = 0)
  /\ pc = "finally" => (temp_dir /\ rmtree_attempts = 0 /\ pending # NoOutcome)
  /\ (pc \in {"done", "idle"} /\ pending # NoOutcome) =>
       (rmtree_attempts = 1 /\ result = pending)

\* C7 witness: the removal failed (the directory is still there) and the
\* caller got the error of the try block.
RemovalFailureSwallowed ==
  /\ pc = "done"
  /\ temp_dir
  /\ rmtree_attempts = 1
  /\ pending.type = "raise"
  /\ result = pending

\* C8: the k-th manifest line is the segment of the k-th input path, the
\* k-th encode and the k-th chapter entry are of the k-th input path.
SequencingIsFileOrder ==
  EndedAllZero =>
    /\ Len(concat_file) = N
    /\ Len(chapter_data) = N
    /\ \A k \in 1..N :
         /\ concat_file[k] = Video(k - 1)
         /\ ffmpeg[k].cmd.audio = flac_files[k]
         /\ chapter_data[k].audio = flac_files[k]

ZeroPadded == [t \in {"1", "2"} |-> IF t = "1" THEN "01" ELSE "02"]

\* C9: every track whose encode exited zero has its chapter entry, titled
\* with the zero-padded track number of get_track_metadata and the track
\* title, and the cursor stands at the end of the last entry.
ChapterEntryPerTrack ==
  \A k \in DOMAIN ffmpeg :
    (ffmpeg[k].cmd.kind = "encode" /\ ffmpeg[k].rc = 0) =>
      LET metadata == get_track_metadata(flac_files[k]) IN
      /\ k \in DOMAIN chapter_data
      /\ chapter_data[k].title = [number |-> ZeroPadded[metadata.track_number.val],
                                  title |-> metadata.title]
      /\ chapter_data[k].end = chapter_data[k].start + metadata.duration
      /\ total_duration = chapter_data[Len(chapter_data)].end

OverlongWord(line) == Len(line) = 1 /\ TextWidth(line) > max_width

LinesFit == \A k \in DOMAIN lines : TextWidth(lines[k]) <= max_width \/ OverlongWord(lines[k])

\* C10 as stated: a text wider than the column wraps to at least two
\* lines, none wider than the column except a single overlong word.
WideTextWraps ==
  (wpc = "done" /\ TextWidth(words) > max_width) => (Len(lines) >= 2 /\ LinesFit)

\* C10 amended: a text of at least two words that is wider than the column
\* wraps to at least two lines; no line of any text is wider than the
\* column except a line that is a single overlong word.
WideTextOfWordsWraps ==
  wpc = "done" =>
    /\ LinesFit
    /\ (Len(words) >= 2 /\ TextWidth(words) > max_width) => Len(lines) >= 2

\* C10 witness: a wide text of several words was wrapped, an overlong word
\* among them.
WrappedWithOverlongWord ==
  /\ wpc = "done"
  /\ Len(words) >= 2
  /\ TextWidth(words) > max_width
  /\ Len(lines) >= 2
  /\ \E k \in DOMAIN lines : OverlongWord(lines[k])
  /\ \E k \in DOMAIN lines : Len(lines[k]) >= 2

\* C11: the transcoder invocations of a run are ordered: the k-th one is
\* the encode of track k-1 and is issued only after the one before it
\* exited zero; a combine is the last invocation, issued once, after the
\* encodes of all N tracks exited zero and with the chapter file and the
\* manifest written; the chapter file goes to the combine only.
InvocationsInOrder ==
  \A k \in DOMAIN ffmpeg :
    /\ k > 1 => (ffmpeg[k - 1].rc = 0 /\ ffmpeg[k - 1].cmd.kind = "encode")
    /\ ffmpeg[k].cmd.kind = "encode" =>
         /\ ffmpeg[k].cmd.track = k - 1
         /\ ~ffmpeg[k].cmd.chapters
         /\ pc # "idle" => ffmpeg[k].cmd.audio = flac_files[k]
    /\ ffmpeg[k].cmd.kind = "combine" =>
         /\ k = Len(ffmpeg)
         /\ Len(video_segments) = k - 1
         /\ pc # "idle" => k = N + 1
         /\ ffmpeg[k].cmd.chapters
         /\ chapter_file = create_chapter_file(chapter_data)
         /\ concat_file = video_segments

\* C11 witness: a run ended whose one invocation was the encode of the
\* first track, exited zero, without the chapter file, and no combine.
FirstEncodeOnly ==
  /\ pc = "done"
  /\ Len(ffmpeg) = 1
  /\ ffmpeg[1].cmd.kind = "encode"
  /\ ffmpeg[1].cmd.track = 0
  /\ ffmpeg[1].rc = 0
  /\ ~ffmpeg[1].cmd.chapters
  /\ chapter_file = <<>>

====
